---- MODULE Spec2Model ----
(***************************************************************************)
(* Model of the data structures of the repository:                         *)
(*   src/src/trie.py          Trie (prefix tree)                            *)
(*   src/src/fenwick_tree.py  FenwickTree (binary indexed tree)             *)
(*   src/src/skip_list.py     SkipList                                      *)
(* Each structure has its own specification (SpecTrie, SpecFenwick,         *)
(* SpecSkip); the variables of the other structures stay at their           *)
(* constructed value.                                                       *)
(* The objects' fields are the variables; t_last, f_last, s_last and the    *)
(* variables marked "history" record the calls made and are read by no      *)
(* operation.                                                               *)
(***************************************************************************)
EXTENDS Integers, Sequences, FiniteSets, TLC

(***************************************************************************)
(* Bounds of the model.                                                     *)
(***************************************************************************)
\* longest word passed to a Trie operation
MaxLen == 2
\* number of mutating Trie calls (insert, delete) in one run
MaxTrieOps == 3

\* largest size a FenwickTree is constructed with
MaxSize == 4
\* number of mutating FenwickTree calls (update, build_from_array) in one run
MaxFenOps == 2

\* number of update and query calls in one run of the loops
MaxLoopCalls == 2
\* number of iterations of one call after which a run is followed no further
MaxIter == 4

\* SkipList.max_level, the highest level of a node (16 by default)
max_level == 2
\* number of mutating SkipList calls (insert, delete) in one run
MaxSkipOps == 3

\* keys passed to the SkipList operations
Keys == {1, 2, 3}

\* characters of the words; "a" and "A" differ only in letter case
Alphabet == {"a", "A"}

RECURSIVE WordsOfLen(_)
WordsOfLen(n) ==
  IF n = 0 THEN {<<>>}
  ELSE {Append(w, c) : w \in WordsOfLen(n - 1), c \in Alphabet}

\* every word of at most MaxLen characters, the empty word included
Words == UNION {WordsOfLen(n) : n \in 0..MaxLen}

\* p is a prefix of w (p = w and p = <<>> included)
IsPrefix(p, w) == Len(p) <= Len(w) /\ SubSeq(w, 1, Len(p)) = p

\* the set of elements of a sequence
Range(s) == {s[i] : i \in 1..Len(s)}

(***************************************************************************)
(* State.                                                                   *)
(*   Trie nodes are numbered in creation order; node 1 is the root.         *)
(*   children[n] is the dict of node n: a sequence of <<char, child>> in    *)
(*   insertion order (a Python dict iterates in insertion order).           *)
(***************************************************************************)
VARIABLES
  children,     \* TrieNode.children of every node
  is_end,       \* TrieNode.is_end of every node
  word_count,   \* Trie.word_count
  t_last,       \* the last Trie call: its name, argument and results
  t_ops,        \* number of mutating Trie calls made so far
  stored,       \* history: words inserted and not successfully deleted since
  inserted      \* history: words that were ever passed to insert

VARIABLES
  size,         \* FenwickTree.size
  tree,         \* FenwickTree.tree, cells 0..size
  f_last,       \* the last FenwickTree call: its name, arguments and result
  f_ops,        \* number of mutating FenwickTree calls made so far
  arr           \* history: the sum of the deltas applied at each position

VARIABLES
  sl_key,       \* SkipNode.key of every node created; node 1 is the header
  sl_forward,   \* SkipNode.forward of every node created, levels 0..height
  sl_level,     \* SkipList.level
  sl_size,      \* SkipList.size
  s_last,       \* the last SkipList call: its name, argument and results
  s_ops,        \* number of mutating SkipList calls made so far
  s_bag         \* history: per key, inserts minus successful deletes

VARIABLES
  l_pc,         \* where the running update or query call is
  l_index,      \* the local variable index of the running call
  l_delta,      \* the argument delta of the running update call
  l_result,     \* the local variable result of the running query call
  l_iter,       \* number of loop iterations the running call has made
  l_calls       \* number of update and query calls started so far

VARIABLES
  ti_thread,    \* per thread, the Trie.insert call it runs: position, locals
  si_thread,    \* per thread, the SkipList.insert call it runs
  ti_overlap,   \* history: two Trie.insert calls were running at once
  si_overlap    \* history: two SkipList.insert calls were running at once

raceVars == <<ti_thread, si_thread, ti_overlap, si_overlap>>

loopVars == <<l_pc, l_index, l_delta, l_result, l_iter, l_calls>>

skipVars == <<sl_key, sl_forward, sl_level, sl_size, s_last, s_ops, s_bag>>

trieVars == <<children, is_end, word_count, t_last, t_ops, stored, inserted>>

fenVars == <<size, tree, f_last, f_ops, arr>>

vars == <<children, is_end, word_count, t_last, t_ops, stored, inserted,
          size, tree, f_last, f_ops, arr,
          sl_key, sl_forward, sl_level, sl_size, s_last, s_ops, s_bag,
          l_pc, l_index, l_delta, l_result, l_iter, l_calls,
          ti_thread, si_thread, ti_overlap, si_overlap>>

\* Trie.root
root == 1
\* the walk fell off the tree
None == 0

(***************************************************************************)
(* Trie: dict lookups                                                       *)
(***************************************************************************)
\* char in node.children
HasChild(ch, n, c) == \E i \in 1..Len(ch[n]) : ch[n][i][1] = c

\* node.children[char]
ChildOf(ch, n, c) ==
  LET i == CHOOSE i \in 1..Len(ch[n]) : ch[n][i][1] = c IN ch[n][i][2]

\* the read-only walk shared by search, starts_with, delete and
\* get_all_words_with_prefix: the node reached by word, None when a
\* character has no child
RECURSIVE Walk(_, _, _)
Walk(ch, n, word) ==
  IF word = <<>> THEN n
  ELSE IF ~HasChild(ch, n, Head(word)) THEN None
  ELSE Walk(ch, ChildOf(ch, n, Head(word)), Tail(word))

\* the walk of insert: creates the missing nodes
RECURSIVE InsertWalk(_, _, _, _)
InsertWalk(ch, ie, n, word) ==
  IF word = <<>> THEN [children |-> ch, is_end |-> ie, node |-> n]
  ELSE IF HasChild(ch, n, Head(word))
       THEN InsertWalk(ch, ie, ChildOf(ch, n, Head(word)), Tail(word))
       ELSE LET new == Len(ch) + 1
                ch2 == Append([ch EXCEPT ![n] = Append(@, <<Head(word), new>>)],
                              <<>>)
                ie2 == Append(ie, FALSE)
            IN  InsertWalk(ch2, ie2, new, Tail(word))

(***************************************************************************)
(* Trie: the operations as functions of the object's fields                 *)
(***************************************************************************)
\* insert without the "if not node.is_end" test: counts every call
TrieInsertAlwaysCounts(ch, ie, wc, word) ==
  LET r == InsertWalk(ch, ie, root, word) IN
  [children |-> r.children,
   is_end |-> [r.is_end EXCEPT ![r.node] = TRUE],
   word_count |-> wc + 1]

\* Trie.insert
TrieInsert(ch, ie, wc, word) ==
  LET r == InsertWalk(ch, ie, root, word) IN
  IF ~r.is_end[r.node]
  THEN [children |-> r.children,
        is_end |-> [r.is_end EXCEPT ![r.node] = TRUE],
        word_count |-> wc + 1]
  ELSE [children |-> r.children, is_end |-> r.is_end, word_count |-> wc]

\* search that returns True at the end of the walk instead of node.is_end
TrieSearchPathOnly(ch, ie, word) ==
  LET n == Walk(ch, root, word) IN
  IF n = None THEN FALSE ELSE TRUE

\* Trie.search
TrieSearch(ch, ie, word) ==
  LET n == Walk(ch, root, word) IN
  IF n = None THEN FALSE ELSE ie[n]

\* starts_with that only accepts a prefix with a child below it
TrieStartsWithNeedsChild(ch, prefix) ==
  LET n == Walk(ch, root, prefix) IN
  IF n = None THEN FALSE ELSE ch[n] # <<>>

\* Trie.starts_with
TrieStartsWith(ch, prefix) ==
  LET n == Walk(ch, root, prefix) IN
  IF n = None THEN FALSE ELSE TRUE

\* delete that also drops the children of the word's node
TrieDeletePrunes(ch, ie, wc, word) ==
  LET n == Walk(ch, root, word) IN
  IF n = None
  THEN [children |-> ch, is_end |-> ie, word_count |-> wc, ret |-> FALSE]
  ELSE IF ie[n]
       THEN [children |-> [ch EXCEPT ![n] = <<>>],
             is_end |-> [ie EXCEPT ![n] = FALSE],
             word_count |-> wc - 1, ret |-> TRUE]
       ELSE [children |-> ch, is_end |-> ie, word_count |-> wc, ret |-> FALSE]

\* delete that drops every node when the last word is deleted
TrieDeleteResets(ch, ie, wc, word) ==
  LET n == Walk(ch, root, word) IN
  IF n = None
  THEN [children |-> ch, is_end |-> ie, word_count |-> wc, ret |-> FALSE]
  ELSE IF ie[n]
       THEN [children |-> IF wc = 1 THEN [ch EXCEPT ![root] = <<>>] ELSE ch,
             is_end |-> [ie EXCEPT ![n] = FALSE],
             word_count |-> wc - 1, ret |-> TRUE]
       ELSE [children |-> ch, is_end |-> ie, word_count |-> wc, ret |-> FALSE]

\* delete without the "if node.is_end" test
TrieDeleteUnchecked(ch, ie, wc, word) ==
  LET n == Walk(ch, root, word) IN
  IF n = None
  THEN [children |-> ch, is_end |-> ie, word_count |-> wc, ret |-> FALSE]
  ELSE [children |-> ch, is_end |-> [ie EXCEPT ![n] = FALSE],
        word_count |-> wc - 1, ret |-> TRUE]

\* Trie.delete
TrieDelete(ch, ie, wc, word) ==
  LET n == Walk(ch, root, word) IN
  IF n = None
  THEN [children |-> ch, is_end |-> ie, word_count |-> wc, ret |-> FALSE]
  ELSE IF ie[n]
       THEN [children |-> ch, is_end |-> [ie EXCEPT ![n] = FALSE],
             word_count |-> wc - 1, ret |-> TRUE]
       ELSE [children |-> ch, is_end |-> ie, word_count |-> wc, ret |-> FALSE]

\* Trie._dfs_collect: the words appended to results, in order
RECURSIVE DfsCollect(_, _, _, _)
RECURSIVE DfsChildren(_, _, _, _, _)
DfsCollect(ch, ie, n, current_word) ==
  (IF ie[n] THEN <<current_word>> ELSE <<>>)
    \o DfsChildren(ch, ie, n, current_word, 1)

\* the for loop of _dfs_collect over reversed(node.children.items())
RECURSIVE DfsChildrenBackwards(_, _, _, _, _)
DfsChildrenBackwards(ch, ie, n, current_word, i) ==
  IF i > Len(ch[n]) THEN <<>>
  ELSE LET j == Len(ch[n]) + 1 - i
       IN  DfsCollect(ch, ie, ch[n][j][2], Append(current_word, ch[n][j][1]))
             \o DfsChildrenBackwards(ch, ie, n, current_word, i + 1)

\* the for loop of _dfs_collect, from the i-th item of node.children on
DfsChildren(ch, ie, n, current_word, i) ==
  IF i > Len(ch[n]) THEN <<>>
  ELSE DfsCollect(ch, ie, ch[n][i][2], Append(current_word, ch[n][i][1]))
         \o DfsChildren(ch, ie, n, current_word, i + 1)

\* get_all_words_with_prefix that starts the traversal with an empty word
TrieGetAllDropsPrefix(ch, ie, prefix) ==
  LET n == Walk(ch, root, prefix) IN
  IF n = None THEN <<>> ELSE DfsCollect(ch, ie, n, <<>>)

\* Trie.get_all_words_with_prefix
TrieGetAll(ch, ie, prefix) ==
  LET n == Walk(ch, root, prefix) IN
  IF n = None THEN <<>> ELSE DfsCollect(ch, ie, n, prefix)

\* the operations on the current object
search(word) == TrieSearch(children, is_end, word)
starts_with(prefix) == TrieStartsWith(children, prefix)
get_all_words_with_prefix(prefix) == TrieGetAll(children, is_end, prefix)

\* the first position at which u and v differ, neither being a prefix of
\* the other
Diverge(u, v) ==
  CHOOSE k \in 1..Len(u) :
    /\ k <= Len(v) /\ u[k] # v[k]
    /\ \A j \in 1..(k - 1) : u[j] = v[j]

\* u comes before v in the pre-order that visits the children of a node in
\* the order insert created them: u is a prefix of v, or below their last
\* common node the branch of u was created before the branch of v (nodes
\* are numbered in creation order)
PreOrderBefore(ch, u, v) ==
  IF IsPrefix(u, v) THEN TRUE
  ELSE IF IsPrefix(v, u) THEN FALSE
  ELSE LET k == Diverge(u, v)
       IN  Walk(ch, root, SubSeq(u, 1, k)) < Walk(ch, root, SubSeq(v, 1, k))

\* the nodes whose is_end flag is set
TerminalNodes == {n \in 1..Len(is_end) : is_end[n]}

(***************************************************************************)
(* Trie: initial state and actions                                          *)
(***************************************************************************)
\* had is history: whether the word was stored when the call was made
NoCall == [name |-> "init", word |-> <<>>, ret |-> FALSE, out |-> <<>>,
           had |-> FALSE]

\* Trie.__init__
TrieInit ==
  /\ children = << <<>> >>
  /\ is_end = <<FALSE>>
  /\ word_count = 0
  /\ t_last = NoCall
  /\ t_ops = 0
  /\ stored = {}
  /\ inserted = {}

\* A run is a sequence of mutating calls followed by at most one query: the
\* queries assign no field, so every state of the object that a run with
\* queries in between reaches is reached by the run without them.
TrieOpen == t_last.name \in {"init", "insert", "delete"}

\* a call of insert(word)
Insert(word) ==
  /\ TrieOpen
  /\ t_ops < MaxTrieOps
  /\ LET r == TrieInsert(children, is_end, word_count, word) IN
       /\ children' = r.children
       /\ is_end' = r.is_end
       /\ word_count' = r.word_count
  /\ t_last' = [NoCall EXCEPT !.name = "insert", !.word = word,
                             !.had = (word \in stored)]
  /\ t_ops' = t_ops + 1
  /\ stored' = stored \cup {word}
  /\ inserted' = inserted \cup {word}
  /\ UNCHANGED <<fenVars, skipVars, loopVars, raceVars>>

\* a call of delete(word)
Delete(word) ==
  /\ TrieOpen
  /\ t_ops < MaxTrieOps
  /\ LET r == TrieDelete(children, is_end, word_count, word) IN
       /\ children' = r.children
       /\ is_end' = r.is_end
       /\ word_count' = r.word_count
       /\ t_last' = [NoCall EXCEPT !.name = "delete", !.word = word,
                                    !.ret = r.ret, !.had = (word \in stored)]
       /\ stored' = IF r.ret THEN stored \ {word} ELSE stored
  /\ t_ops' = t_ops + 1
  /\ UNCHANGED <<inserted, fenVars, skipVars, loopVars, raceVars>>

\* a call of search(word)
Search(word) ==
  /\ TrieOpen
  /\ t_last' = [NoCall EXCEPT !.name = "search", !.word = word,
                             !.ret = search(word), !.had = (word \in stored)]
  /\ UNCHANGED <<children, is_end, word_count, t_ops, stored, inserted,
                 fenVars, skipVars, loopVars, raceVars>>

\* a call of starts_with(prefix)
StartsWith(prefix) ==
  /\ TrieOpen
  /\ t_last' = [NoCall EXCEPT !.name = "starts_with", !.word = prefix,
                             !.ret = starts_with(prefix),
                             !.had = (prefix \in stored)]
  /\ UNCHANGED <<children, is_end, word_count, t_ops, stored, inserted,
                 fenVars, skipVars, loopVars, raceVars>>

\* a call of get_all_words_with_prefix(prefix)
GetAll(prefix) ==
  /\ TrieOpen
  /\ t_last' = [NoCall EXCEPT !.name = "get_all", !.word = prefix,
                             !.out = get_all_words_with_prefix(prefix),
                             !.had = (prefix \in stored)]
  /\ UNCHANGED <<children, is_end, word_count, t_ops, stored, inserted,
                 fenVars, skipVars, loopVars, raceVars>>

TrieNext ==
  \/ \E w \in Words : Insert(w)
  \/ \E w \in Words : Delete(w)
  \/ \E w \in Words : Search(w)
  \/ \E w \in Words : StartsWith(w)
  \/ \E w \in Words : GetAll(w)

(***************************************************************************)
(* FenwickTree: the operations as functions of the object's fields          *)
(***************************************************************************)
\* deltas and array elements passed to the FenwickTree: a negative and a
\* positive value of different magnitude
Deltas == {-1, 2}

\* index & (-index): the lowest set bit of index, 0 for 0
RECURSIVE LowBit(_)
LowBit(index) ==
  IF index = 0 THEN 0
  ELSE IF index % 2 = 1 THEN 1
  ELSE 2 * LowBit(index \div 2)

\* the update loop stepping by 1 instead of by the lowest set bit
RECURSIVE UpdateLoopByOne(_, _, _, _)
UpdateLoopByOne(tr, sz, index, delta) ==
  IF index <= sz
  THEN UpdateLoopByOne([tr EXCEPT ![index] = @ + delta], sz, index + 1, delta)
  ELSE tr

\* update adding delta to the first cell only, without the climb
UpdateLoopFirstCellOnly(tr, sz, index, delta) ==
  IF index <= sz THEN [tr EXCEPT ![index] = @ + delta] ELSE tr

\* the while loop of FenwickTree.update, index 1-based
RECURSIVE UpdateLoop(_, _, _, _)
UpdateLoop(tr, sz, index, delta) ==
  IF index <= sz
  THEN UpdateLoop([tr EXCEPT ![index] = @ + delta], sz,
                  index + LowBit(index), delta)
  ELSE tr

\* update that treats an index past the end as the last position
FenUpdateClamps(tr, sz, index, delta) ==
  UpdateLoop(tr, sz, IF index + 1 > sz /\ sz > 0 THEN sz ELSE index + 1,
             delta)

\* update that also adds delta to the unused cell 0
FenUpdateTouchesZero(tr, sz, index, delta) ==
  [UpdateLoop(tr, sz, index + 1, delta) EXCEPT ![0] = @ + delta]

\* FenwickTree.update: the cells after the call
FenUpdate(tr, sz, index, delta) == UpdateLoop(tr, sz, index + 1, delta)

\* the while loop of FenwickTree.query, index 1-based
RECURSIVE QueryLoop(_, _, _)
QueryLoop(tr, index, result) ==
  IF index > 0
  THEN QueryLoop(tr, index - LowBit(index), result + tr[index])
  ELSE result

\* FenwickTree.query
FenQuery(tr, index) == QueryLoop(tr, index + 1, 0)

\* range_query subtracting query(left) instead of query(left - 1)
FenRangeQueryOffByOne(tr, left, right) ==
  IF left > 0
  THEN FenQuery(tr, right) - FenQuery(tr, left)
  ELSE FenQuery(tr, right)

\* FenwickTree.range_query
FenRangeQuery(tr, left, right) ==
  IF left > 0
  THEN FenQuery(tr, right) - FenQuery(tr, left - 1)
  ELSE FenQuery(tr, right)

\* build_from_array passing 1-based positions to update
RECURSIVE FenBuildFromOneBased(_, _, _, _)
FenBuildFromOneBased(tr, sz, values, i) ==
  IF i > Len(values) THEN tr
  ELSE FenBuildFromOneBased(FenUpdate(tr, sz, i, values[i]), sz, values, i + 1)

\* FenwickTree.build_from_array: the cells after the call, the for loop
\* from the i-th element (1-based position in the sequence) on
RECURSIVE FenBuildFrom(_, _, _, _)
FenBuildFrom(tr, sz, values, i) ==
  IF i > Len(values) THEN tr
  ELSE FenBuildFrom(FenUpdate(tr, sz, i - 1, values[i]), sz, values, i + 1)

\* FenwickTree.build_from_array
FenBuild(tr, sz, values) == FenBuildFrom(tr, sz, values, 1)

\* the operations on the current object
query(index) == FenQuery(tree, index)
range_query(left, right) == FenRangeQuery(tree, left, right)

\* sum of f[lo..hi], 0 for an empty range
RECURSIVE SumRange(_, _, _)
SumRange(f, lo, hi) == IF lo > hi THEN 0 ELSE f[hi] + SumRange(f, lo, hi - 1)

\* every array of exactly n elements
RECURSIVE ArraysOfLen(_)
ArraysOfLen(n) ==
  IF n = 0 THEN {<<>>}
  ELSE {Append(a, d) : a \in ArraysOfLen(n - 1), d \in Deltas}

(***************************************************************************)
(* FenwickTree: initial state and actions                                   *)
(***************************************************************************)
NoFenCall == [name |-> "init", index |-> 0, right |-> 0, values |-> <<>>,
              ret |-> 0]

\* FenwickTree.__init__(sz)
FenConstruct(sz) ==
  /\ size = sz
  /\ tree = [i \in 0..sz |-> 0]
  /\ f_last = NoFenCall
  /\ f_ops = 0
  /\ arr = [i \in 0..(sz - 1) |-> 0]

FenInit == \E sz \in 0..MaxSize : FenConstruct(sz)

\* As for the Trie, a run is a sequence of mutating calls followed by at most
\* one query: query and range_query assign no field.
FenOpen == f_last.name \in {"init", "update", "build"}

\* a call of update(index, delta) with index in [0, size)
Update(index, delta) ==
  /\ FenOpen
  /\ f_ops < MaxFenOps
  /\ tree' = FenUpdate(tree, size, index, delta)
  /\ f_last' = [NoFenCall EXCEPT !.name = "update"]
  /\ f_ops' = f_ops + 1
  /\ arr' = [arr EXCEPT ![index] = @ + delta]
  /\ UNCHANGED <<size, trieVars, skipVars, loopVars, raceVars>>

\* a call of update(index, delta) with index >= size
UpdateBeyond(index, delta) ==
  /\ FenOpen
  /\ f_ops < MaxFenOps
  /\ index >= size
  /\ tree' = FenUpdate(tree, size, index, delta)
  /\ f_last' = [NoFenCall EXCEPT !.name = "update", !.index = index]
  /\ f_ops' = f_ops + 1
  /\ UNCHANGED <<size, arr, trieVars, skipVars, loopVars, raceVars>>

\* a call of build_from_array(values); arr has no position for the elements
\* of values at positions >= size
Build(values) ==
  /\ FenOpen
  /\ f_ops < MaxFenOps
  /\ tree' = FenBuild(tree, size, values)
  /\ f_last' = [NoFenCall EXCEPT !.name = "build", !.values = values]
  /\ f_ops' = f_ops + 1
  /\ arr' = [i \in 0..(size - 1) |->
               IF i < Len(values) THEN arr[i] + values[i + 1] ELSE arr[i]]
  /\ UNCHANGED <<size, trieVars, skipVars, loopVars, raceVars>>

\* a call of query(index) with index in [0, size)
Query(index) ==
  /\ FenOpen
  /\ f_last' = [NoFenCall EXCEPT !.name = "query", !.index = index,
                                 !.ret = query(index)]
  /\ UNCHANGED <<size, tree, f_ops, arr, trieVars, skipVars, loopVars, raceVars>>

\* a call of range_query(left, right) with 0 <= left <= right < size
RangeQuery(left, right) ==
  /\ FenOpen
  /\ f_last' = [NoFenCall EXCEPT !.name = "range_query", !.index = left,
                                 !.right = right,
                                 !.ret = range_query(left, right)]
  /\ UNCHANGED <<size, tree, f_ops, arr, trieVars, skipVars, loopVars, raceVars>>

FenNext ==
  \/ \E i \in 0..(size - 1), d \in Deltas : Update(i, d)
  \/ \E n \in 0..size : \E values \in ArraysOfLen(n) : Build(values)
  \/ \E i \in 0..(size - 1) : Query(i)
  \/ \E l \in 0..(size - 1) : \E r \in l..(size - 1) : RangeQuery(l, r)

\* update and build_from_array with arguments past the end of the tree, next
\* to update and query in range
BeyondNext ==
  \/ \E i \in 0..(size - 1), d \in Deltas : Update(i, d)
  \/ \E i \in size..(size + 1), d \in Deltas : UpdateBeyond(i, d)
  \/ \E values \in ArraysOfLen(size + 1) : Build(values)
  \/ \E i \in 0..(size - 1) : Query(i)

(***************************************************************************)
(* FenwickTree: update and query one loop iteration at a time, for every    *)
(* integer index                                                            *)
(***************************************************************************)
\* no call of update or query is running
LoopIdle ==
  /\ l_pc = "idle"
  /\ l_index = 0
  /\ l_delta = 0
  /\ l_result = 0
  /\ l_iter = 0
  /\ l_calls = 0

\* the integer indices a call is made with: below, inside and above the
\* cells of the tree
Indices == (0 - (size + 3))..(size + 1)

\* i is a valid subscript of a Python list of n items
ListHas(n, i) == 0 - n <= i /\ i < n

\* the position a valid subscript i denotes in a Python list of n items:
\* negative subscripts count from the end
ListAt(n, i) == IF i < 0 THEN n + i ELSE i

\* no call is running: the last one, if any, returned or raised
LoopFree == l_pc \in {"idle", "returned", "raised"}

\* update(index, delta) up to the test of its loop: "index += 1"
UpdateCall(index, delta) ==
  /\ LoopFree
  /\ l_calls < MaxLoopCalls
  /\ l_pc' = "update"
  /\ l_index' = index + 1
  /\ l_delta' = delta
  /\ l_result' = 0
  /\ l_iter' = 0
  /\ l_calls' = l_calls + 1
  /\ UNCHANGED <<fenVars, trieVars, skipVars, raceVars>>

\* one iteration of the loop of update; the assignment to self.tree[index]
\* raises IndexError when index is not a subscript of the list
UpdateStep ==
  /\ l_pc = "update"
  /\ l_index <= size
  /\ l_iter < MaxIter
  /\ IF ListHas(size + 1, l_index)
     THEN /\ tree' = [tree EXCEPT ![ListAt(size + 1, l_index)] = @ + l_delta]
          /\ l_index' = l_index + LowBit(l_index)
          /\ l_iter' = l_iter + 1
          /\ UNCHANGED l_pc
     ELSE /\ l_pc' = "raised"
          /\ UNCHANGED <<tree, l_index, l_iter>>
  /\ UNCHANGED <<size, f_last, f_ops, arr, l_delta, l_result, l_calls,
                 trieVars, skipVars, raceVars>>

\* the loop of update ends: update returns None
UpdateReturn ==
  /\ l_pc = "update"
  /\ ~(l_index <= size)
  /\ l_pc' = "returned"
  /\ UNCHANGED <<l_index, l_delta, l_result, l_iter, l_calls,
                 fenVars, trieVars, skipVars, raceVars>>

\* query(index) up to the test of its loop: "index += 1; result = 0"
QueryCall(index) ==
  /\ LoopFree
  /\ l_calls < MaxLoopCalls
  /\ l_pc' = "query"
  /\ l_index' = index + 1
  /\ l_delta' = 0
  /\ l_result' = 0
  /\ l_iter' = 0
  /\ l_calls' = l_calls + 1
  /\ UNCHANGED <<fenVars, trieVars, skipVars, raceVars>>

\* one iteration of the loop of query; the read of self.tree[index] raises
\* IndexError when index is not a subscript of the list
QueryStep ==
  /\ l_pc = "query"
  /\ l_index > 0
  /\ l_iter < MaxIter
  /\ IF ListHas(size + 1, l_index)
     THEN /\ l_result' = l_result + tree[ListAt(size + 1, l_index)]
          /\ l_index' = l_index - LowBit(l_index)
          /\ l_iter' = l_iter + 1
          /\ UNCHANGED l_pc
     ELSE /\ l_pc' = "raised"
          /\ UNCHANGED <<l_result, l_index, l_iter>>
  /\ UNCHANGED <<l_delta, l_calls, fenVars, trieVars, skipVars, raceVars>>

\* the loop of query ends: query returns result
QueryReturn ==
  /\ l_pc = "query"
  /\ ~(l_index > 0)
  /\ l_pc' = "returned"
  /\ UNCHANGED <<l_index, l_delta, l_result, l_iter, l_calls,
                 fenVars, trieVars, skipVars, raceVars>>

LoopNext ==
  \/ \E i \in Indices, d \in Deltas : UpdateCall(i, d)
  \/ UpdateStep
  \/ UpdateReturn
  \/ \E i \in Indices : QueryCall(i)
  \/ QueryStep
  \/ QueryReturn

(***************************************************************************)
(* SkipList: the operations as functions of the object's fields             *)
(*   Nodes are numbered in creation order; node 1 is the header.            *)
(*   forward[n][i + 1] is forward[i] of node n (None when empty); a node    *)
(*   of level h has the levels 0..h. A node unlinked by delete keeps its    *)
(*   number and its fields, as an object no longer referenced would.        *)
(***************************************************************************)
\* SkipList.header
header == 1
\* the header's key, float('-inf'): below every key
NegInf == -1

\* SkipNode.__init__: the forward list of a node of the given level
NewForward(level) == [i \in 1..(level + 1) |-> None]

\* the descent loop advancing while the next key is greater than key
RECURSIVE SkipAdvanceReversed(_, _, _, _, _)
SkipAdvanceReversed(fw, ky, current, i, key) ==
  IF fw[current][i + 1] # None /\ ky[fw[current][i + 1]] > key
  THEN SkipAdvanceReversed(fw, ky, fw[current][i + 1], i, key)
  ELSE current

\* the descent loop advancing while the next key is less than or equal to key
RECURSIVE SkipAdvanceUpTo(_, _, _, _, _)
SkipAdvanceUpTo(fw, ky, current, i, key) ==
  IF fw[current][i + 1] # None /\ ky[fw[current][i + 1]] <= key
  THEN SkipAdvanceUpTo(fw, ky, fw[current][i + 1], i, key)
  ELSE current

\* the while loop of the descent at level i: the last node reached
RECURSIVE SkipAdvance(_, _, _, _, _)
SkipAdvance(fw, ky, current, i, key) ==
  IF fw[current][i + 1] # None /\ ky[fw[current][i + 1]] < key
  THEN SkipAdvance(fw, ky, fw[current][i + 1], i, key)
  ELSE current

\* the for loop of the descent of insert and delete, from level i down to 0:
\* the update vector and the last node reached
RECURSIVE SkipDescend(_, _, _, _, _, _)
SkipDescend(fw, ky, current, i, key, update) ==
  IF i < 0 THEN [update |-> update, current |-> current]
  ELSE LET c == SkipAdvance(fw, ky, current, i, key)
       IN  SkipDescend(fw, ky, c, i - 1, key, [update EXCEPT ![i] = c])

\* update = [None] * (self.max_level + 1)
NoUpdate == [i \in 0..max_level |-> None]

\* the outcomes of the successive tests "random.random() < self.p" of one
\* call of _random_level with max_level mx: the loop makes at most mx + 1 of
\* them; a p of 1 or more makes all of them true, a p of 0 or less none
RECURSIVE TrialsOfLen(_)
TrialsOfLen(n) ==
  IF n = 0 THEN {<<>>}
  ELSE {Append(t, b) : t \in TrialsOfLen(n - 1), b \in BOOLEAN}

Trials(mx) == TrialsOfLen(mx + 1)

\* the loop of _random_level with the test "level <= self.max_level"
RECURSIVE RandomLevelLoopInclusive(_, _, _)
RandomLevelLoopInclusive(trials, level, mx) ==
  IF trials # <<>> /\ Head(trials) /\ level <= mx
  THEN RandomLevelLoopInclusive(Tail(trials), level + 1, mx)
  ELSE level

\* the while loop of _random_level: level counts the successful trials
RECURSIVE RandomLevelLoop(_, _, _)
RandomLevelLoop(trials, level, mx) ==
  IF trials # <<>> /\ Head(trials) /\ level < mx
  THEN RandomLevelLoop(Tail(trials), level + 1, mx)
  ELSE level

\* SkipList._random_level
random_level(trials, mx) == RandomLevelLoop(trials, 0, mx)

\* SkipList._random_level: the levels it can return
RandomLevels == {random_level(t, max_level) : t \in Trials(max_level)}

\* the splice loop linking the new node at level 0 only
RECURSIVE SkipSpliceLevel0(_, _, _, _, _)
SkipSpliceLevel0(fw, update, new_node, i, new_level) ==
  IF i > 0 THEN fw
  ELSE LET fw1 == [fw EXCEPT ![new_node][i + 1] = fw[update[i]][i + 1]]
           fw2 == [fw1 EXCEPT ![update[i]][i + 1] = new_node]
       IN  SkipSpliceLevel0(fw2, update, new_node, i + 1, new_level)

\* the splice loop of insert, from level i up to new_level
RECURSIVE SkipSplice(_, _, _, _, _)
SkipSplice(fw, update, new_node, i, new_level) ==
  IF i > new_level THEN fw
  ELSE LET fw1 == [fw EXCEPT ![new_node][i + 1] = fw[update[i]][i + 1]]
           fw2 == [fw1 EXCEPT ![update[i]][i + 1] = new_node]
       IN  SkipSplice(fw2, update, new_node, i + 1, new_level)

\* SkipList.insert, with new_level the level _random_level returned
SkipInsert(fw, ky, lvl, sz, key, new_level) ==
  LET d == SkipDescend(fw, ky, header, lvl, key, NoUpdate)
      update == [i \in 0..max_level |->
                   IF new_level > lvl /\ i \in (lvl + 1)..new_level
                   THEN header ELSE d.update[i]]
      new_node == Len(ky) + 1
  IN  [forward |-> SkipSplice(Append(fw, NewForward(new_level)), update,
                              new_node, 0, new_level),
       key |-> Append(ky, key),
       level |-> IF new_level > lvl THEN new_level ELSE lvl,
       size |-> sz + 1,
       node |-> new_node]

\* the for loop of search, from level i down to 0: the last node reached
RECURSIVE SkipSearchDescend(_, _, _, _, _)
SkipSearchDescend(fw, ky, current, i, key) ==
  IF i < 0 THEN current
  ELSE SkipSearchDescend(fw, ky, SkipAdvance(fw, ky, current, i, key),
                         i - 1, key)

\* search without the comparison of the key of the node reached
SkipSearchNoKeyTest(fw, ky, lvl, key) ==
  LET current == fw[SkipSearchDescend(fw, ky, header, lvl, key)][1]
  IN  current # None

\* SkipList.search
SkipSearch(fw, ky, lvl, key) ==
  LET current == fw[SkipSearchDescend(fw, ky, header, lvl, key)][1]
  IN  current # None /\ ky[current] = key

\* the unlink loop running over range(self.level): the top level is skipped
RECURSIVE SkipUnlinkBelowTop(_, _, _, _, _)
SkipUnlinkBelowTop(fw, update, current, i, lvl) ==
  IF i >= lvl THEN fw
  ELSE IF fw[update[i]][i + 1] # current THEN fw
  ELSE SkipUnlinkBelowTop([fw EXCEPT ![update[i]][i + 1] = fw[current][i + 1]],
                          update, current, i + 1, lvl)

\* the unlink loop of delete, from level i up to the list level, with its
\* break
RECURSIVE SkipUnlink(_, _, _, _, _)
SkipUnlink(fw, update, current, i, lvl) ==
  IF i > lvl THEN fw
  ELSE IF fw[update[i]][i + 1] # current THEN fw
  ELSE SkipUnlink([fw EXCEPT ![update[i]][i + 1] = fw[current][i + 1]],
                  update, current, i + 1, lvl)

\* delete lowering the list level with an "if" instead of a "while"
SkipShrinkOnce(fw, lvl) ==
  IF lvl > 0 /\ fw[header][lvl + 1] = None THEN lvl - 1 ELSE lvl

\* delete without the loop that lowers the list level
SkipShrinkNever(fw, lvl) == lvl

\* the while loop of delete that lowers the list level
RECURSIVE SkipShrink(_, _)
SkipShrink(fw, lvl) ==
  IF lvl > 0 /\ fw[header][lvl + 1] = None THEN SkipShrink(fw, lvl - 1)
  ELSE lvl

\* delete without "self.size -= 1"
SkipDeleteKeepsSize(fw, ky, lvl, sz, key) ==
  LET d == SkipDescend(fw, ky, header, lvl, key, NoUpdate)
      current == fw[d.current][1]
  IN  IF current = None \/ ky[current] # key
      THEN [forward |-> fw, level |-> lvl, size |-> sz, ret |-> FALSE,
            node |-> None]
      ELSE LET fw2 == SkipUnlink(fw, d.update, current, 0, lvl)
           IN  [forward |-> fw2, level |-> SkipShrink(fw2, lvl),
                size |-> sz, ret |-> TRUE, node |-> current]

\* delete lowering size before it tests whether the key was found
SkipDeleteCountsMiss(fw, ky, lvl, sz, key) ==
  LET d == SkipDescend(fw, ky, header, lvl, key, NoUpdate)
      current == fw[d.current][1]
  IN  IF current = None \/ ky[current] # key
      THEN [forward |-> fw, level |-> lvl, size |-> sz - 1, ret |-> FALSE,
            node |-> None]
      ELSE LET fw2 == SkipUnlink(fw, d.update, current, 0, lvl)
           IN  [forward |-> fw2, level |-> SkipShrink(fw2, lvl),
                size |-> sz - 1, ret |-> TRUE, node |-> current]

\* SkipList.delete
SkipDelete(fw, ky, lvl, sz, key) ==
  LET d == SkipDescend(fw, ky, header, lvl, key, NoUpdate)
      current == fw[d.current][1]
  IN  IF current = None \/ ky[current] # key
      THEN [forward |-> fw, level |-> lvl, size |-> sz, ret |-> FALSE,
            node |-> None]
      ELSE LET fw2 == SkipUnlink(fw, d.update, current, 0, lvl)
           IN  [forward |-> fw2, level |-> SkipShrink(fw2, lvl),
                size |-> sz - 1, ret |-> TRUE, node |-> current]

\* the nodes met walking the level-L links, from node n on
RECURSIVE ChainFrom(_, _, _)
ChainFrom(fw, n, L) ==
  IF n = None THEN <<>>
  ELSE <<n>> \o ChainFrom(fw, fw[n][L + 1], L)

\* the nodes met walking the level-L links from the header
Chain(fw, L) == ChainFrom(fw, fw[header][L + 1], L)

\* the keys met walking the level-L links from the header
ChainKeys(fw, ky, L) ==
  LET c == Chain(fw, L) IN [i \in 1..Len(c) |-> ky[c[i]]]

\* number of occurrences of k in the sequence q
CountIn(q, k) == Cardinality({i \in 1..Len(q) : q[i] = k})

\* q is in non-decreasing order
IsSorted(q) == \A i \in 1..(Len(q) - 1) : q[i] <= q[i + 1]

\* the level of node n
LevelOf(fw, n) == Len(fw[n]) - 1

\* the subsequence of the nodes of q whose level is at least L
RECURSIVE AtLeast(_, _, _)
AtLeast(q, fw, L) ==
  IF q = <<>> THEN <<>>
  ELSE (IF LevelOf(fw, Head(q)) >= L THEN <<Head(q)>> ELSE <<>>)
         \o AtLeast(Tail(q), fw, L)

\* the greatest level among the nodes of q, 0 for no node
RECURSIVE MaxLevelOf(_, _)
MaxLevelOf(q, fw) ==
  IF q = <<>> THEN 0
  ELSE LET m == MaxLevelOf(Tail(q), fw)
           h == LevelOf(fw, Head(q))
       IN  IF h > m THEN h ELSE m

\* the operations and walks on the current object
sl_search(key) == SkipSearch(sl_forward, sl_key, sl_level, key)
Level0 == Chain(sl_forward, 0)
Level0Keys == ChainKeys(sl_forward, sl_key, 0)

(***************************************************************************)
(* SkipList: initial state and actions                                      *)
(***************************************************************************)
\* node, undo and the pre_ fields are history: the node created or unlinked,
\* whether a delete directly follows an insert of the same key, and the
\* size, level and level-0 keys before that insert; had is the number of
\* stored occurrences of the key when the call was made
NoSkipCall == [name |-> "init", key |-> 0, ret |-> FALSE, node |-> None,
               had |-> 0, undo |-> FALSE, pre_size |-> 0, pre_level |-> 0,
               pre_keys |-> <<>>]

\* SkipList.__init__
SkipInit ==
  /\ sl_key = <<NegInf>>
  /\ sl_forward = <<NewForward(max_level)>>
  /\ sl_level = 0
  /\ sl_size = 0
  /\ s_last = NoSkipCall
  /\ s_ops = 0
  /\ s_bag = [k \in Keys |-> 0]

\* a run is a sequence of mutating calls followed by at most one search:
\* search assigns no field
SkipOpen == s_last.name \in {"init", "insert", "delete"}

\* a call of insert(key) in which _random_level returns new_level
SkipInsertCall(key, new_level) ==
  /\ SkipOpen
  /\ s_ops < MaxSkipOps
  /\ LET r == SkipInsert(sl_forward, sl_key, sl_level, sl_size, key,
                         new_level) IN
       /\ sl_forward' = r.forward
       /\ sl_key' = r.key
       /\ sl_level' = r.level
       /\ sl_size' = r.size
       /\ s_last' = [NoSkipCall EXCEPT !.name = "insert", !.key = key,
                                       !.node = r.node, !.had = s_bag[key],
                                       !.pre_size = sl_size,
                                       !.pre_level = sl_level,
                                       !.pre_keys = Level0Keys]
  /\ s_ops' = s_ops + 1
  /\ s_bag' = [s_bag EXCEPT ![key] = @ + 1]
  /\ UNCHANGED <<trieVars, fenVars, loopVars, raceVars>>

\* a call of delete(key)
SkipDeleteCall(key) ==
  /\ SkipOpen
  /\ s_ops < MaxSkipOps
  /\ LET r == SkipDelete(sl_forward, sl_key, sl_level, sl_size, key)
         undo == s_last.name = "insert" /\ s_last.key = key IN
       /\ sl_forward' = r.forward
       /\ sl_level' = r.level
       /\ sl_size' = r.size
       /\ s_last' = [NoSkipCall EXCEPT
                       !.name = "delete", !.key = key, !.ret = r.ret,
                       !.node = r.node, !.had = s_bag[key], !.undo = undo,
                       !.pre_size = IF undo THEN s_last.pre_size ELSE 0,
                       !.pre_level = IF undo THEN s_last.pre_level ELSE 0,
                       !.pre_keys = IF undo THEN s_last.pre_keys ELSE <<>>]
       /\ s_bag' = IF r.ret THEN [s_bag EXCEPT ![key] = @ - 1] ELSE s_bag
  /\ s_ops' = s_ops + 1
  /\ UNCHANGED <<sl_key, trieVars, fenVars, loopVars, raceVars>>

\* a call of search(key)
SkipSearchCall(key) ==
  /\ SkipOpen
  /\ s_last' = [NoSkipCall EXCEPT !.name = "search", !.key = key,
                                  !.ret = sl_search(key), !.had = s_bag[key]]
  /\ UNCHANGED <<sl_key, sl_forward, sl_level, sl_size, s_ops, s_bag,
                 trieVars, fenVars, loopVars, raceVars>>

SkipNext ==
  \/ \E k \in Keys, h \in RandomLevels : SkipInsertCall(k, h)
  \/ \E k \in Keys : SkipDeleteCall(k)
  \/ \E k \in Keys : SkipSearchCall(k)

(***************************************************************************)
(* Two threads call insert on the same Trie and then on the same SkipList,  *)
(* without a lock. A step is one statement of insert, or one iteration of   *)
(* the descent loop; _random_level reads no field, its result is drawn when *)
(* the call starts.                                                         *)
(***************************************************************************)
Threads == {1, 2}

\* the words and keys the threads insert
RaceWords == {<<>>, <<"a">>}
RaceKeys == {1, 2}

TiIdle == [pc |-> "idle", word |-> <<>>, node |-> root, pos |-> 1]

SiIdle == [pc |-> "idle", key |-> 0, new_level |-> 0, update |-> NoUpdate,
           current |-> header, i |-> 0, new_node |-> None]

RaceIdle ==
  /\ ti_thread = [t \in Threads |-> TiIdle]
  /\ si_thread = [t \in Threads |-> SiIdle]
  /\ ti_overlap = FALSE
  /\ si_overlap = FALSE

\* the threads run the same code: thread 1 is the one that calls first
CallsInTurn(thr, t) == \A u \in Threads : u < t => thr[u].pc # "idle"

\* no call is running: every thread has not called yet, has returned or has
\* raised
TiQuiet == \A t \in Threads : ti_thread[t].pc \in {"idle", "done"}
SiQuiet == \A t \in Threads : si_thread[t].pc \in {"idle", "done", "raised"}

\* node.children[char] = child: a new key goes to the end of the dict, an
\* existing key keeps its place and gets the new value
DictPut(items, char, child) ==
  IF \E j \in 1..Len(items) : items[j][1] = char
  THEN [j \in 1..Len(items) |->
          IF items[j][1] = char THEN <<char, child>> ELSE items[j]]
  ELSE Append(items, <<char, child>>)

\* thread t calls Trie.insert(word): "node = self.root"; both threads
\* insert the same word
TiCall(t, word) ==
  /\ ti_thread[t].pc = "idle"
  /\ CallsInTurn(ti_thread, t)
  /\ \A u \in Threads : si_thread[u].pc = "idle"
  /\ \A u \in Threads : ti_thread[u].pc # "idle" => ti_thread[u].word = word
  /\ ti_thread' = [ti_thread EXCEPT ![t] =
                     [TiIdle EXCEPT !.word = word,
                                    !.pc = IF word = <<>> THEN "end_test"
                                           ELSE "has_child"]]
  /\ ti_overlap' = (ti_overlap
                      \/ \E u \in Threads : ti_thread[u].pc \notin {"idle", "done"})
  /\ UNCHANGED <<si_thread, si_overlap, trieVars, fenVars, skipVars, loopVars>>

\* "if char not in node.children"
TiHasChild(t) ==
  LET th == ti_thread[t] IN
  /\ th.pc = "has_child"
  /\ ti_thread' = [ti_thread EXCEPT ![t].pc =
                     IF HasChild(children, th.node, th.word[th.pos])
                     THEN "descend" ELSE "create"]
  /\ UNCHANGED <<si_thread, ti_overlap, si_overlap, trieVars, fenVars,
                 skipVars, loopVars>>

\* "node.children[char] = TrieNode()"
TiCreate(t) ==
  LET th == ti_thread[t] IN
  /\ th.pc = "create"
  /\ children' = Append([children EXCEPT ![th.node] =
                           DictPut(@, th.word[th.pos], Len(children) + 1)],
                        <<>>)
  /\ is_end' = Append(is_end, FALSE)
  /\ ti_thread' = [ti_thread EXCEPT ![t].pc = "descend"]
  /\ UNCHANGED <<word_count, t_last, t_ops, stored, inserted, si_thread,
                 ti_overlap, si_overlap, fenVars, skipVars, loopVars>>

\* "node = node.children[char]" and the next round of the for loop
TiDescend(t) ==
  LET th == ti_thread[t] IN
  /\ th.pc = "descend"
  /\ ti_thread' = [ti_thread EXCEPT ![t] =
                     [th EXCEPT !.node = ChildOf(children, th.node,
                                                 th.word[th.pos]),
                                !.pos = th.pos + 1,
                                !.pc = IF th.pos + 1 > Len(th.word)
                                       THEN "end_test" ELSE "has_child"]]
  /\ UNCHANGED <<si_thread, ti_overlap, si_overlap, trieVars, fenVars,
                 skipVars, loopVars>>

\* "if not node.is_end"; a call that returns forgets its locals
TiEndTest(t) ==
  LET th == ti_thread[t] IN
  /\ th.pc = "end_test"
  /\ ti_thread' = [ti_thread EXCEPT ![t] =
                     IF ~is_end[th.node] THEN [th EXCEPT !.pc = "set_end"]
                     ELSE [TiIdle EXCEPT !.pc = "done", !.word = th.word]]
  /\ UNCHANGED <<si_thread, ti_overlap, si_overlap, trieVars, fenVars,
                 skipVars, loopVars>>

\* "node.is_end = True"
TiSetEnd(t) ==
  LET th == ti_thread[t] IN
  /\ th.pc = "set_end"
  /\ is_end' = [is_end EXCEPT ![th.node] = TRUE]
  /\ ti_thread' = [ti_thread EXCEPT ![t].pc = "count"]
  /\ UNCHANGED <<children, word_count, t_last, t_ops, stored, inserted,
                 si_thread, ti_overlap, si_overlap, fenVars, skipVars,
                 loopVars>>

\* "self.word_count += 1" and the return
TiCount(t) ==
  LET th == ti_thread[t] IN
  /\ th.pc = "count"
  /\ word_count' = word_count + 1
  /\ ti_thread' = [ti_thread EXCEPT ![t] =
                     [TiIdle EXCEPT !.pc = "done", !.word = th.word]]
  /\ UNCHANGED <<children, is_end, t_last, t_ops, stored, inserted,
                 si_thread, ti_overlap, si_overlap, fenVars, skipVars,
                 loopVars>>

\* thread t calls SkipList.insert(key) once no Trie.insert is running:
\* "update = [None] * (self.max_level + 1); current = self.header" and the
\* range(self.level, -1, -1) of the descent
SiCall(t, key, new_level) ==
  /\ si_thread[t].pc = "idle"
  /\ CallsInTurn(si_thread, t)
  /\ TiQuiet
  /\ si_thread' = [si_thread EXCEPT ![t] =
                     [SiIdle EXCEPT !.pc = "scan", !.key = key,
                                    !.new_level = new_level, !.i = sl_level]]
  /\ si_overlap' = (si_overlap
                      \/ \E u \in Threads :
                           si_thread[u].pc \notin {"idle", "done", "raised"})
  /\ UNCHANGED <<ti_thread, ti_overlap, trieVars, fenVars, skipVars, loopVars>>

\* one iteration of the descent: the while loop moves current forward, or
\* ends and "update[i] = current" closes the round of the for loop
SiScan(t) ==
  LET th == si_thread[t]
      nxt == sl_forward[th.current][th.i + 1] IN
  /\ th.pc = "scan"
  /\ si_thread' = [si_thread EXCEPT ![t] =
       IF nxt # None /\ sl_key[nxt] < th.key
       THEN [th EXCEPT !.current = nxt]
       ELSE [th EXCEPT !.update[th.i] = th.current, !.i = th.i - 1,
                       !.pc = IF th.i = 0 THEN "raise" ELSE "scan"]]
  /\ UNCHANGED <<ti_thread, ti_overlap, si_overlap, trieVars, fenVars,
                 skipVars, loopVars>>

\* "if new_level > self.level" and the loop "update[i] = self.header"
SiRaise(t) ==
  LET th == si_thread[t] IN
  /\ th.pc = "raise"
  /\ si_thread' = [si_thread EXCEPT ![t] =
       IF th.new_level > sl_level
       THEN [th EXCEPT !.update = [j \in 0..max_level |->
                                     IF j \in (sl_level + 1)..th.new_level
                                     THEN header ELSE th.update[j]],
                       !.pc = "set_level"]
       ELSE [th EXCEPT !.pc = "new_node"]]
  /\ UNCHANGED <<ti_thread, ti_overlap, si_overlap, trieVars, fenVars,
                 skipVars, loopVars>>

\* "self.level = new_level"
SiSetLevel(t) ==
  LET th == si_thread[t] IN
  /\ th.pc = "set_level"
  /\ sl_level' = th.new_level
  /\ si_thread' = [si_thread EXCEPT ![t].pc = "new_node"]
  /\ UNCHANGED <<sl_key, sl_forward, sl_size, s_last, s_ops, s_bag,
                 ti_thread, ti_overlap, si_overlap, trieVars, fenVars,
                 loopVars>>

\* "new_node = SkipNode(key, new_level)"
SiNewNode(t) ==
  LET th == si_thread[t] IN
  /\ th.pc = "new_node"
  /\ sl_key' = Append(sl_key, th.key)
  /\ sl_forward' = Append(sl_forward, NewForward(th.new_level))
  /\ si_thread' = [si_thread EXCEPT ![t] =
                     [th EXCEPT !.new_node = Len(sl_key) + 1, !.i = 0,
                                !.pc = "link_node"]]
  /\ UNCHANGED <<sl_level, sl_size, s_last, s_ops, s_bag, ti_thread,
                 ti_overlap, si_overlap, trieVars, fenVars, loopVars>>

\* the statement as "new_node.forward[i] = None"
SiLinkNodeNoNext(t) ==
  LET th == si_thread[t] IN
  /\ th.pc = "link_node"
  /\ si_thread' = [si_thread EXCEPT ![t].pc = "link_pred"]
  /\ UNCHANGED <<skipVars, ti_thread, ti_overlap, si_overlap, trieVars,
                 fenVars, loopVars>>

\* "new_node.forward[i] = update[i].forward[i]"; update[i] is None, and the
\* statement raises AttributeError, when the other thread raised self.level
\* between the descent and the test of new_level
SiLinkNode(t) ==
  LET th == si_thread[t] IN
  /\ th.pc = "link_node"
  /\ IF th.update[th.i] = None
     THEN /\ si_thread' = [si_thread EXCEPT ![t] =
                             [SiIdle EXCEPT !.pc = "raised", !.key = th.key]]
          /\ UNCHANGED sl_forward
     ELSE /\ sl_forward' = [sl_forward EXCEPT ![th.new_node][th.i + 1] =
                              sl_forward[th.update[th.i]][th.i + 1]]
          /\ si_thread' = [si_thread EXCEPT ![t].pc = "link_pred"]
  /\ UNCHANGED <<sl_key, sl_level, sl_size, s_last, s_ops, s_bag, ti_thread,
                 ti_overlap, si_overlap, trieVars, fenVars, loopVars>>

\* "update[i].forward[i] = new_node" and the next round of the for loop
SiLinkPred(t) ==
  LET th == si_thread[t] IN
  /\ th.pc = "link_pred"
  /\ sl_forward' = [sl_forward EXCEPT ![th.update[th.i]][th.i + 1] =
                      th.new_node]
  /\ si_thread' = [si_thread EXCEPT ![t] =
                     [th EXCEPT !.i = th.i + 1,
                                !.pc = IF th.i + 1 > th.new_level
                                       THEN "size" ELSE "link_node"]]
  /\ UNCHANGED <<sl_key, sl_level, sl_size, s_last, s_ops, s_bag, ti_thread,
                 ti_overlap, si_overlap, trieVars, fenVars, loopVars>>

\* "self.size += 1" and the return
SiSize(t) ==
  LET th == si_thread[t] IN
  /\ th.pc = "size"
  /\ sl_size' = sl_size + 1
  /\ si_thread' = [si_thread EXCEPT ![t] =
                     [SiIdle EXCEPT !.pc = "done", !.key = th.key]]
  /\ UNCHANGED <<sl_key, sl_forward, sl_level, s_last, s_ops, s_bag,
                 ti_thread, ti_overlap, si_overlap, trieVars, fenVars,
                 loopVars>>

RaceNext ==
  \/ \E t \in Threads, w \in RaceWords : TiCall(t, w)
  \/ \E t \in Threads : TiHasChild(t)
  \/ \E t \in Threads : TiCreate(t)
  \/ \E t \in Threads : TiDescend(t)
  \/ \E t \in Threads : TiEndTest(t)
  \/ \E t \in Threads : TiSetEnd(t)
  \/ \E t \in Threads : TiCount(t)
  \/ \E t \in Threads, k \in RaceKeys, l \in RandomLevels : SiCall(t, k, l)
  \/ \E t \in Threads : SiScan(t)
  \/ \E t \in Threads : SiRaise(t)
  \/ \E t \in Threads : SiSetLevel(t)
  \/ \E t \in Threads : SiNewNode(t)
  \/ \E t \in Threads : SiLinkNode(t)
  \/ \E t \in Threads : SiLinkPred(t)
  \/ \E t \in Threads : SiSize(t)

\* the terminal nodes that a walk from the root reaches
ReachableTerminals ==
  {n \in TerminalNodes : \E w \in Words : Walk(children, root, w) = n}

(***************************************************************************)
(* Specifications                                                           *)
(***************************************************************************)
\* a new Trie, next to a FenwickTree and a SkipList that stay idle
InitTrie == TrieInit /\ FenConstruct(0) /\ SkipInit /\ LoopIdle /\ RaceIdle

\* a new FenwickTree of any size up to MaxSize, next to a Trie and a
\* SkipList that stay idle
InitFenwick == FenInit /\ TrieInit /\ SkipInit /\ LoopIdle /\ RaceIdle

\* a Trie under insert, delete and its queries
SpecTrie == InitTrie /\ [][TrieNext]_vars

\* a FenwickTree under update, build_from_array and its queries, with
\* arguments in range
SpecFenwick == InitFenwick /\ [][FenNext]_vars

\* a FenwickTree under update and build_from_array with positions at and
\* past its size
SpecFenwickBeyond == InitFenwick /\ [][BeyondNext]_vars

\* a new FenwickTree of any size up to MaxSize on which update and query run
\* one loop iteration at a time, called with any integer index
InitLoop == FenInit /\ TrieInit /\ SkipInit /\ LoopIdle /\ RaceIdle

SpecFenwickLoop == InitLoop /\ [][LoopNext]_vars

\* a new Trie and a new SkipList shared by two threads
InitRace == TrieInit /\ FenConstruct(0) /\ SkipInit /\ LoopIdle /\ RaceIdle

\* two threads that each call insert on the Trie and then on the SkipList
\* at any time, also while the call of the other thread is running
SpecRace == InitRace /\ [][RaceNext]_vars

\* a new SkipList, next to a Trie and a FenwickTree that stay idle
InitSkip == SkipInit /\ TrieInit /\ FenConstruct(0) /\ LoopIdle /\ RaceIdle

\* a SkipList under insert with every level _random_level can return,
\* delete and search
SpecSkip == InitSkip /\ [][SkipNext]_vars

(***************************************************************************)
(* Trie: properties                                                         *)
(***************************************************************************)
\* C1: in every state reached by insert and delete calls, for every word w
\* (the empty word and words differing only in case included) search(w) is
\* true iff w was inserted and no delete(w) succeeded since; search(w) is
\* true right after insert(w), and a word never inserted (such as a proper
\* prefix of a stored word) is reported false.
C1_SearchIffStored ==
  /\ TrieOpen => \A w \in Words : search(w) <=> (w \in stored)
  /\ t_last.name = "insert" => search(t_last.word)
  /\ TrieOpen => \A p \in Words : p \notin inserted => ~search(p)
  /\ t_last.name = "search" => (t_last.ret <=> t_last.word \in stored)

\* search("a") answered false for the never-inserted proper prefix "a" of the
\* stored "aA", while "A", differing from "a" only in case, is stored
C1_Witness ==
  /\ t_last.name = "search" /\ t_last.word = <<"a">> /\ ~t_last.ret
  /\ <<"a">> \notin inserted
  /\ {<<"a", "A">>, <<"A">>} \subseteq stored

\* C2: a successful delete(w) makes search(w) false and leaves search(v)
\* unchanged for every other word v (sharing a prefix with w, a proper
\* prefix of w, or extending w).
C2_DeleteFrame ==
  [][(t_last'.name = "delete" /\ t_ops' = t_ops + 1 /\ t_last'.ret)
       => /\ ~TrieSearch(children', is_end', t_last'.word)
          /\ \A v \in Words \ {t_last'.word} :
               TrieSearch(children', is_end', v) = search(v)]_vars

\* a delete succeeded on a non-empty word while a word extending it is stored
C2_Witness ==
  /\ t_last.name = "delete" /\ t_last.ret /\ t_last.word # <<>>
  /\ \E v \in stored : v # t_last.word /\ IsPrefix(t_last.word, v)

\* C3 (as claimed): starts_with(prefix) is true iff at least one word
\* currently stored starts with prefix.
C3_StartsWithIffStoredPrefix ==
  \A p \in Words : starts_with(p) <=> (\E w \in stored : IsPrefix(p, w))

\* C4: for every word w that has been inserted and every prefix p of w (the
\* empty prefix and w itself included), starts_with(p) is true, also when p
\* was never inserted as a word.
C4_PrefixConsistency ==
  /\ TrieOpen =>
       \A w \in inserted : \A p \in Words : IsPrefix(p, w) => starts_with(p)
  /\ (t_last.name = "starts_with"
        /\ \E w \in inserted : IsPrefix(t_last.word, w)) => t_last.ret

\* starts_with answered true for a non-empty proper prefix that was never
\* inserted itself
C4_Witness ==
  /\ t_last.name = "starts_with" /\ t_last.ret
  /\ t_last.word # <<>> /\ t_last.word \notin inserted
  /\ \E w \in inserted : IsPrefix(t_last.word, w)

\* C5: word_count equals the number of terminal nodes and the number of
\* distinct stored words and is never negative; inserting a stored word
\* leaves it unchanged; each successful delete lowers it by exactly one.
C5_WordCount ==
  /\ [](/\ word_count = Cardinality(TerminalNodes)
        /\ word_count = Cardinality(stored)
        /\ word_count >= 0)
  /\ [][/\ (t_last'.name = "insert" /\ t_ops' = t_ops + 1
              /\ t_last'.word \in stored) => word_count' = word_count
        /\ (t_last'.name = "delete" /\ t_ops' = t_ops + 1 /\ t_last'.ret)
              => word_count' = word_count - 1]_vars

\* a stored word was inserted again while another word is stored too
C5_Witness ==
  /\ t_last.name = "insert" /\ t_last.had
  /\ word_count = 2

\* C6: delete(word) returns false and changes no flag, no node and not
\* word_count when the path for word is absent or its last node is not
\* terminal; a second delete of a word right after a successful one
\* returns false.
C6_DeleteMiss ==
  [][(t_last'.name = "delete" /\ t_ops' = t_ops + 1)
       => LET w == t_last'.word
              n == Walk(children, root, w)
          IN  /\ (n = None \/ ~is_end[n])
                   => /\ ~t_last'.ret
                      /\ UNCHANGED <<children, is_end, word_count>>
              /\ (t_last.name = "delete" /\ t_last.ret /\ t_last.word = w)
                   => ~t_last'.ret]_vars

\* delete returned false for a word whose path exists (a word extending it
\* is stored) but whose last node is not terminal
C6_Witness ==
  /\ t_last.name = "delete" /\ ~t_last.ret
  /\ starts_with(t_last.word) /\ t_last.word # <<>>
  /\ t_last.word \notin inserted

\* C7: get_all_words_with_prefix(prefix) returns, each exactly once, exactly
\* the stored words that start with prefix (prefix itself included when
\* stored), and the empty list when the prefix path is absent; deleted
\* words never appear.
C7_GetAll ==
  /\ TrieOpen => \A p \in Words :
       LET out == get_all_words_with_prefix(p) IN
         /\ Range(out) = {w \in stored : IsPrefix(p, w)}
         /\ Len(out) = Cardinality(Range(out))
         /\ Walk(children, root, p) = None => out = <<>>
  /\ t_last.name = "get_all"
       => /\ Range(t_last.out) = {w \in stored : IsPrefix(t_last.word, w)}
          /\ Len(t_last.out) = Cardinality(Range(t_last.out))
          /\ ~starts_with(t_last.word) => t_last.out = <<>>

\* the enumeration under a non-empty prefix that was inserted and deleted
\* returned the one stored word extending it and left the deleted word out
C7_Witness ==
  /\ t_last.name = "get_all" /\ t_last.word # <<>>
  /\ t_last.word \in inserted \ stored
  /\ Len(t_last.out) = 1 /\ t_last.out[1] # t_last.word

(***************************************************************************)
(* FenwickTree: properties                                                  *)
(***************************************************************************)
\* C8: for a tree of size n and any sequence of update calls with indices
\* in [0, n) (build_from_array included), query(i) for every i in [0, n) is
\* the sum of all deltas applied at positions <= i, for positive and
\* negative deltas alike.
C8_QueryIsPrefixSum ==
  /\ FenOpen => \A i \in 0..(size - 1) : query(i) = SumRange(arr, 0, i)
  /\ f_last.name = "query" => f_last.ret = SumRange(arr, 0, f_last.index)

\* query of the last position after a positive and a negative delta were
\* applied at different positions
C8_Witness ==
  /\ f_last.name = "query" /\ size = 4 /\ f_last.index = 3
  /\ arr[0] > 0 /\ arr[2] < 0

\* C9: for 0 <= left <= right < size, range_query(left, right) is the sum
\* of the current elements at left..right: query(right) - query(left-1)
\* when left > 0 and query(right) when left = 0; range_query(i, i) is
\* element i.
C9_RangeQuery ==
  /\ FenOpen => \A l \in 0..(size - 1) : \A r \in l..(size - 1) :
       /\ range_query(l, r) = SumRange(arr, l, r)
       /\ range_query(l, r) =
            IF l > 0 THEN query(r) - query(l - 1) ELSE query(r)
  /\ FenOpen => \A i \in 0..(size - 1) : range_query(i, i) = arr[i]
  /\ f_last.name = "range_query"
       => f_last.ret = SumRange(arr, f_last.index, f_last.right)

\* range_query(i, i) with i > 0 returned the non-zero element i
C9_Witness ==
  /\ f_last.name = "range_query" /\ f_last.index > 0
  /\ f_last.right = f_last.index
  /\ f_last.ret # 0 /\ arr[f_last.index - 1] # 0

\* C10: after build_from_array(values) on a freshly constructed tree with
\* len(values) <= size, query(i) = values[0] + ... + values[i] for every i
\* in [0, len(values)).
C10_BuildEquivalence ==
  (f_last.name = "build" /\ f_ops = 1)
    => \A i \in 0..(Len(f_last.values) - 1) :
         query(i) = SumRange(f_last.values, 1, i + 1)

\* a fresh tree of size 4 was built from four values of both signs
C10_Witness ==
  /\ f_last.name = "build" /\ f_ops = 1 /\ size = 4
  /\ Len(f_last.values) = 4
  /\ f_last.values[1] > 0 /\ f_last.values[2] < 0 /\ f_last.values[4] > 0

(***************************************************************************)
(* SkipList: properties                                                     *)
(***************************************************************************)
\* C11: in every state reached by insert and delete calls, for every
\* sequence of sampled levels, walking the level-0 links from the header
\* visits keys in non-decreasing order, and the number of nodes visited
\* equals size.
C11_Level0Sorted ==
  SkipOpen => /\ IsSorted(Level0Keys)
              /\ Len(Level0) = sl_size

\* three nodes are stored, two of them with the same key, the smallest key
\* was inserted last and the list uses its highest level
C11_Witness ==
  /\ s_last.name = "insert" /\ s_last.key = 1
  /\ sl_size = 3 /\ Level0Keys = <<1, 2, 2>>
  /\ sl_level = max_level

\* C12: after any sequence of insert and delete calls and for every choice
\* of node levels, search(key) is true iff key has at least one stored
\* occurrence (more inserts of key than successful deletes of key); it is
\* false on an empty list and for keys between, below or above the stored
\* keys.
C12_SkipSearchIffStored ==
  /\ SkipOpen => \A k \in Keys : sl_search(k) <=> s_bag[k] > 0
  /\ s_last.name = "search" => (s_last.ret <=> s_last.had > 0)

\* search answered false for a key that was inserted and then deleted while
\* a smaller key stays stored
C12_Witness ==
  /\ s_last.name = "search" /\ s_last.key = 2 /\ ~s_last.ret
  /\ \E n \in 2..Len(sl_key) : sl_key[n] = 2
  /\ Level0Keys = <<1>>

\* C13: delete(key) on a list holding k >= 1 occurrences of key returns
\* true, removes exactly one occurrence (the level-0 keys lose one copy of
\* key and nothing else) and lowers size by one; search(key) afterwards is
\* true iff k >= 2.
C13_DeleteOne ==
  [][(s_last'.name = "delete" /\ s_ops' = s_ops + 1
        /\ s_bag[s_last'.key] >= 1)
       => LET k == s_last'.key
              after == ChainKeys(sl_forward', sl_key', 0)
          IN  /\ s_last'.ret
              /\ \A j \in Keys :
                   CountIn(after, j)
                     = CountIn(Level0Keys, j) - (IF j = k THEN 1 ELSE 0)
              /\ sl_size' = sl_size - 1
              /\ SkipSearch(sl_forward', sl_key', sl_level', k)
                   <=> s_bag[k] >= 2]_vars

\* a delete of a key stored twice succeeded and the key is still found
C13_Witness ==
  /\ s_last.name = "delete" /\ s_last.ret /\ s_last.had = 2
  /\ sl_size = 1 /\ sl_search(s_last.key)

\* C14: delete(key) for a key with no stored occurrence (an empty list
\* included) returns false, raises no error, and leaves every forward link,
\* the list level and size unchanged.
C14_SkipDeleteMiss ==
  [][(s_last'.name = "delete" /\ s_ops' = s_ops + 1
        /\ s_bag[s_last'.key] = 0)
       => /\ ~s_last'.ret
          /\ UNCHANGED <<sl_forward, sl_key, sl_level, sl_size>>]_vars

\* delete returned false for a key between the two keys of a list that uses
\* a level above 0
C14_Witness ==
  /\ s_last.name = "delete" /\ ~s_last.ret /\ s_last.key = 2
  /\ Level0Keys = <<1, 3>> /\ sl_level > 0

\* C15: insert(key) immediately followed by delete(key) restores size, the
\* level-0 key sequence and the list level to their values before the
\* insert; search(key) is then false if key was not stored before the
\* insert.
C15_InsertDeleteRestores ==
  (s_last.name = "delete" /\ s_last.undo)
    => /\ s_last.ret
       /\ sl_size = s_last.pre_size
       /\ Level0Keys = s_last.pre_keys
       /\ sl_level = s_last.pre_level
       /\ (s_last.had = 1 => ~sl_search(s_last.key))

\* a key not stored before was inserted above the level of the list, which
\* held another key, and was deleted at once
C15_Witness ==
  /\ s_last.name = "delete" /\ s_last.undo /\ s_last.had = 1
  /\ s_last.pre_size = 1 /\ s_last.pre_level = 0
  /\ Len(sl_forward[s_last.node]) = max_level + 1

\* C16 (as stated): nodes with equal keys appear at level 0 in insertion
\* order: insert(key) places the new node immediately after all existing
\* nodes whose key equals key.
C16_InsertionOrder ==
  SkipOpen =>
    \A a, b \in 1..Len(Level0) :
      (a < b /\ sl_key[Level0[a]] = sl_key[Level0[b]])
        => Level0[a] < Level0[b]

\* C16 (amended): nodes with equal keys appear at level 0 in reverse
\* insertion order: insert(key) places the new node immediately before all
\* existing nodes whose key equals key (and after every node with a smaller
\* key).
C16_ReverseInsertionOrder ==
  /\ SkipOpen =>
       \A a, b \in 1..Len(Level0) :
         (a < b /\ sl_key[Level0[a]] = sl_key[Level0[b]])
           => Level0[a] > Level0[b]
  /\ s_last.name = "insert" =>
       \E a \in 1..Len(Level0) :
         /\ Level0[a] = s_last.node
         /\ \A b \in 1..Len(Level0) :
              /\ sl_key[Level0[b]] < s_last.key => b < a
              /\ (b # a /\ sl_key[Level0[b]] >= s_last.key) => b > a

\* a key was inserted while a node with that key and a node with a smaller
\* key were stored
C16_Witness ==
  /\ s_last.name = "insert" /\ s_last.had = 1
  /\ Level0Keys = <<1, 2, 2>>

\* C18: in every state reached by FenwickTree.update calls with indices in
\* [0, size), for every 1-based position i in 1..size the cell tree[i] is
\* the sum of the current element values at 1-based positions
\* i - lowbit(i) + 1 .. i (0-based i - lowbit(i) .. i - 1): the last
\* lowbit(i) elements ending at i.
C18_CellInvariant ==
  FenOpen =>
    \A i \in 1..size : tree[i] = SumRange(arr, i - LowBit(i), i - 1)

\* two updates at different positions of a tree of four cells, both under
\* the cell tree[4], which covers all four elements
C18_Witness ==
  /\ f_last.name = "update" /\ f_ops = 2 /\ size = 4
  /\ arr[0] = 2 /\ arr[2] = 0 - 1
  /\ tree[4] = 1 /\ tree[2] = 2 /\ tree[3] = 0 - 1

\* C19: for every level L from 0 to the list level, the chain of level L
\* is sorted by key and consists of exactly the level-0 nodes whose height
\* is at least L, in the same relative order.
C19_LevelChains ==
  SkipOpen =>
    \A L \in 0..sl_level :
      /\ IsSorted(ChainKeys(sl_forward, sl_key, L))
      /\ Chain(sl_forward, L) = AtLeast(Level0, sl_forward, L)

\* three nodes of three different heights are stored and the middle one at
\* level 0 is the tallest
C19_Witness ==
  /\ SkipOpen /\ sl_size = 3 /\ sl_level = max_level
  /\ Len(Chain(sl_forward, 1)) = 2
  /\ Chain(sl_forward, max_level) = <<Level0[2]>>

\* C20: after a successful delete, the removed node is unreachable from the
\* header at every level from 0 to max_level, also when nodes with equal
\* keys have different heights.
C20_RemovedUnreachable ==
  (s_last.name = "delete" /\ s_last.ret)
    => \A L \in 0..max_level :
         \A n \in 1..Len(Chain(sl_forward, L)) :
           Chain(sl_forward, L)[n] # s_last.node

\* a key stored twice in nodes of different heights lost its taller node,
\* which was above the other node's height
C20_Witness ==
  /\ s_last.name = "delete" /\ s_last.ret /\ s_last.had = 2
  /\ Len(sl_forward[s_last.node]) = max_level + 1
  /\ sl_size = 1 /\ Len(sl_forward[Level0[1]]) = 1

\* C17: every operation terminates and returns: the loops of
\* FenwickTree.update and FenwickTree.query finish after finitely many
\* iterations for every integer index they are called with. The test of
\* each loop reads only index and size, so the loop finishes iff no
\* iteration leaves it where it was: every iteration of update moves index
\* up, towards its exit index > size, and every iteration of query moves
\* index down, towards its exit index <= 0.
C17_LoopsTerminate ==
  [][/\ (l_pc = "update" /\ l_pc' = "update") => l_index' > l_index
     /\ (l_pc = "query" /\ l_pc' = "query") => l_index' < l_index]_vars

\* C21: in every state reached by insert and delete calls, 0 <= level <=
\* max_level, level is the greatest height among the stored nodes (0 when
\* the list is empty), header.forward[L] is empty for every L above level,
\* and header.forward[level] is non-empty whenever level > 0.
C21_ActiveLevel ==
  SkipOpen =>
    /\ 0 <= sl_level /\ sl_level <= max_level
    /\ sl_level = MaxLevelOf(Level0, sl_forward)
    /\ \A L \in (sl_level + 1)..max_level : sl_forward[header][L + 1] = None
    /\ sl_level > 0 => sl_forward[header][sl_level + 1] # None

\* delete removed the only node of the highest level and the list level
\* fell to the level of the node that stays
C21_Witness ==
  /\ s_last.name = "delete" /\ s_last.ret
  /\ LevelOf(sl_forward, s_last.node) = max_level
  /\ sl_size = 1 /\ sl_level = 1

\* C22: Trie.delete never removes a node. Over every step the set of nodes
\* only grows: every node keeps its number and its children, in order, and
\* every path from the root leads to the node it led to before. delete
\* changes only the terminal flag of the word's last node and word_count,
\* and nodes are created only by insert: the queries (the steps that leave
\* the number of mutating calls unchanged) change no node and no flag.
C22_NodesOnlyGrow ==
  [][IF t_ops' = t_ops
     THEN children' = children /\ is_end' = is_end
     ELSE /\ Len(children') >= Len(children)
          /\ \A n \in 1..Len(children) :
               /\ Len(children'[n]) >= Len(children[n])
               /\ SubSeq(children'[n], 1, Len(children[n])) = children[n]
          /\ \A w \in Words :
               Walk(children, root, w) # None
                 => Walk(children', root, w) = Walk(children, root, w)
          /\ t_last'.name # "insert" => children' = children
          /\ t_last'.name = "delete"
               => /\ children' = children
                  /\ Len(is_end') = Len(is_end)
                  /\ \A n \in 1..Len(is_end) :
                       n # Walk(children, root, t_last'.word)
                         => is_end'[n] = is_end[n]
                  /\ word_count'
                       = word_count - (IF t_last'.ret THEN 1 ELSE 0)]_vars

\* delete succeeded on a word whose last node has a child: the node and the
\* child are still there
C22_Witness ==
  /\ t_last.name = "delete" /\ t_last.ret
  /\ Walk(children, root, t_last.word) # None
  /\ Len(children[Walk(children, root, t_last.word)]) > 0
  /\ ~is_end[Walk(children, root, t_last.word)]

\* C23: SkipList._random_level always returns a level in 0..max_level, the
\* number of its successful trials, whatever the outcomes of the trials
\* (whatever p); with max_level = 0 it always returns 0. Hence every data
\* node has at most max_level + 1 forward links, as many as the header, and
\* the highest index insert uses, new_level, is an index of the header's
\* forward array.
C23_RandomLevelBounded ==
  /\ \A mx \in 0..max_level : \A t \in Trials(mx) :
       random_level(t, mx) \in 0..mx
  /\ \A t \in Trials(0) : random_level(t, 0) = 0
  /\ \A n \in 2..Len(sl_forward) :
       Len(sl_forward[n]) <= Len(sl_forward[header])
  /\ s_last.name = "insert"
       => LevelOf(sl_forward, s_last.node) + 1 <= Len(sl_forward[header])

\* every trial of _random_level succeeded: insert gave a node max_level + 1
\* links and raised the list from level 0 to max_level
C23_Witness ==
  /\ s_last.name = "insert" /\ s_last.pre_size = 1 /\ s_last.pre_level = 0
  /\ Len(sl_forward[s_last.node]) = max_level + 1
  /\ random_level([i \in 1..(max_level + 1) |-> TRUE], max_level) = max_level
  /\ sl_level = max_level

\* C24: a FenwickTree keeps exactly size + 1 cells for its whole lifetime,
\* all zero after construction; under update calls with indices in
\* [0, size) cell 0 is never written and stays zero; query and range_query
\* change no cell.
C24_Cells ==
  /\ [](/\ DOMAIN tree = 0..size
        /\ tree[0] = 0
        /\ f_last.name = "init" => \A i \in 0..size : tree[i] = 0)
  /\ [][/\ size' = size
        /\ f_last'.name \in {"query", "range_query"} => tree' = tree]_vars

\* the first element of a tree of four cells was updated twice: the cells
\* that cover it hold the sum and cell 0 holds zero
C24_Witness ==
  /\ f_last.name = "update" /\ f_ops = 2 /\ size = 4
  /\ tree[1] = 4 /\ tree[2] = 4 /\ tree[4] = 4 /\ tree[3] = 0
  /\ tree[0] = 0

\* C26: update(index, delta) with index >= size raises no error and leaves
\* every cell unchanged; consequently build_from_array(values) with
\* len(values) > size ignores the elements at positions >= size: it leaves
\* the cells that building from the first size elements leaves, and every
\* query grows by the sum of the elements up to its index only.
C26_PastTheEnd ==
  [][/\ (f_last'.name = "update" /\ f_ops' = f_ops + 1
           /\ f_last'.index >= size)
          => tree' = tree
     /\ (f_last'.name = "build" /\ f_ops' = f_ops + 1
           /\ Len(f_last'.values) > size)
          => /\ tree' = FenBuild(tree, size, SubSeq(f_last'.values, 1, size))
             /\ \A i \in 0..(size - 1) :
                  FenQuery(tree', i)
                    = query(i) + SumRange(f_last'.values, 1, i + 1)]_vars

\* a tree of two cells that already held values was built from three
\* elements
C26_Witness ==
  /\ f_last.name = "build" /\ f_ops = 2 /\ size = 2
  /\ f_last.values = <<2, 0 - 1, 2>>
  /\ arr[0] = 4 /\ arr[1] = 0 - 2
  /\ FenQuery(tree, 1) = 2

C25_UnsafeOnlyWhenInterleaved ==
  /\ (SiQuiet /\ ~si_overlap)
       => /\ Len(Level0) = sl_size
          /\ IsSorted(Level0Keys)
          /\ \A t \in Threads : si_thread[t].pc # "raised"
  /\ (TiQuiet /\ ~ti_overlap)
       => word_count = Cardinality(ReachableTerminals)

\* both threads returned from both inserts: the Trie counts two words and
\* has one terminal node, the SkipList has size 2 and one node at level 0
C25_Witness ==
  /\ \A t \in Threads : ti_thread[t].pc = "done" /\ si_thread[t].pc = "done"
  /\ ti_overlap /\ si_overlap
  /\ word_count = 2 /\ Cardinality(ReachableTerminals) = 1
  /\ sl_size = 2 /\ Len(Level0) = 1

====
